---- MODULE Spec2Model ----
(***************************************************************************)
(* Model of saved_model_half_plus_two.py: the script that exports the      *)
(* "half plus two" regression graph (y = a*x + b, a = 0.5, b = 2) as a      *)
(* SavedModel, once in binary and once in text form.                        *)
(*                                                                          *)
(* The script is modelled statement by statement (one action per            *)
(* statement of _generate_saved_model_for_half_plus_two and of main).       *)
(* The TensorFlow calls it makes (graph construction, Session,              *)
(* SavedModelBuilder, the SavedModel loader) are modelled by the operators  *)
(* of the first half of the module.                                         *)
(***************************************************************************)
EXTENDS Integers, Sequences, FiniteSets, TLC

(***************************************************************************)
(* Bounds of the model.                                                     *)
(***************************************************************************)
\* number of times the script is run, one after the other
MaxRuns == 2
\* fed values are n / 2^e with |n| <= MaxV and e <= MaxE
MaxV == 2
MaxE == 1

(***************************************************************************)
(* float32 values.  Every value that occurs is a dyadic rational n / 2^e    *)
(* small enough for float32 arithmetic to be exact, so a value is the pair  *)
(* [n, e] in lowest terms and Mul / Add are exact.                          *)
(***************************************************************************)
RECURSIVE Pow2(_)
Pow2(k) == IF k = 0 THEN 1 ELSE 2 * Pow2(k - 1)

RECURSIVE Norm(_)
Norm(v) == IF v.e > 0 /\ v.n % 2 = 0
           THEN Norm([n |-> v.n \div 2, e |-> v.e - 1])
           ELSE v

Float(n, e) == Norm([n |-> n, e |-> e])

MaxOf(i, j) == IF i >= j THEN i ELSE j

FMul(p, q) == Norm([n |-> p.n * q.n, e |-> p.e + q.e])

FAdd(p, q) ==
    LET m == MaxOf(p.e, q.e)
    IN  Norm([n |-> p.n * Pow2(m - p.e) + q.n * Pow2(m - q.e), e |-> m])

Zero == Float(0, 0)

Values == {Float(n, e) : n \in (0 - MaxV)..MaxV, e \in 0..MaxE}

(***************************************************************************)
(* Graphs.  A graph is the sequence of its operations in creation order;    *)
(* an operation has a name unique in its graph, a type, the names of its    *)
(* input tensors, and (by type) an initial value or a feature key.          *)
(* Every operation here has one output, tensor "<op name>:0".               *)
(***************************************************************************)
Op(name, type, inputs, value, key) ==
    [name |-> name, type |-> type, inputs |-> inputs, value |-> value, key |-> key]

OpNames(g) == {g[i].name : i \in DOMAIN g}

TensorName(opname) == opname \o ":0"

\* Graph.unique_name: the name itself when free, else name_1, name_2, ...
UniqueName(g, base) ==
    IF base \notin OpNames(g) THEN base
    ELSE LET free == {k \in 1..(Len(g) + 1) :
                        (base \o "_" \o ToString(k)) \notin OpNames(g)}
             k0   == CHOOSE k \in free : \A j \in free : k <= j
         IN  base \o "_" \o ToString(k0)

HasTensor(g, t) == \E i \in DOMAIN g : TensorName(g[i].name) = t

OpOfTensor(g, t) == g[CHOOSE i \in DOMAIN g : TensorName(g[i].name) = t]

(***************************************************************************)
(* Serialized tensorflow.Example records: a sequence of features, each a    *)
(* key with a float list.                                                   *)
(***************************************************************************)
Feature(key, vals) == [key |-> key, vals |-> vals]

\* records whose field x holds the single value v, alone or beside a field z
ExamplesWithX(v) ==
    { <<Feature("x", <<v>>)>>,
      <<Feature("z", <<Zero>>), Feature("x", <<v>>)>>,
      <<Feature("x", <<v>>), Feature("z", <<v, v>>)>> }

\* records a FixedLenFeature([1]) for x rejects
BadExamples ==
    { <<>>, <<Feature("z", <<Zero>>)>>, <<Feature("x", <<Zero, Zero>>)>> }

Examples == (UNION {ExamplesWithX(v) : v \in Values}) \cup BadExamples

\* parse_example with a FixedLenFeature of shape [1] and no default value:
\* the feature must be present with exactly one value
ParseFixedLen1(rec, key) ==
    LET hits == {i \in DOMAIN rec : rec[i].key = key}
    IN  IF hits = {} THEN [ok |-> FALSE, val |-> Zero]
        ELSE LET f == rec[CHOOSE i \in hits : \A j \in hits : j <= i]
             IN  IF Len(f.vals) = 1 THEN [ok |-> TRUE, val |-> f.vals[1]]
                 ELSE [ok |-> FALSE, val |-> Zero]

(***************************************************************************)
(* Variable values of a session or of a checkpoint: a sequence of           *)
(* [name, val] entries, one per initialized variable.                       *)
(***************************************************************************)
VarEntry(name, val) == [name |-> name, val |-> val]

IsSet(vars, name) == \E i \in DOMAIN vars : vars[i].name = name

ValueOf(vars, name) == vars[CHOOSE i \in DOMAIN vars : vars[i].name = name].val

VariableOps(g) == SelectSeq(g, LAMBDA o : o.type = "Variable")

\* running the init op: every variable of the graph gets its initial value
RunInit(g) ==
    LET vs == VariableOps(g)
    IN  [i \in DOMAIN vs |-> VarEntry(vs[i].name, vs[i].value)]

AllInitialized(g, vars) ==
    \A i \in DOMAIN g : g[i].type = "Variable" => IsSet(vars, g[i].name)

(***************************************************************************)
(* Session.run of one tensor: ok is FALSE when the run raises (a tensor     *)
(* that does not exist, an uninitialized variable, a record the parser      *)
(* rejects, a placeholder that is not fed).                                 *)
(***************************************************************************)
Failed == [ok |-> FALSE, val |-> Zero]

RECURSIVE Eval(_, _, _, _, _)
Eval(g, vars, t, fedTensor, rec) ==
    IF ~HasTensor(g, t) THEN Failed
    ELSE LET o == OpOfTensor(g, t)
             in1 == Eval(g, vars, o.inputs[1], fedTensor, rec)
             in2 == Eval(g, vars, o.inputs[2], fedTensor, rec)
         IN  CASE o.type = "Variable" ->
                    IF IsSet(vars, o.name)
                    THEN [ok |-> TRUE, val |-> ValueOf(vars, o.name)]
                    ELSE Failed
               [] o.type = "ParseExample" ->
                    IF o.inputs[1] = fedTensor
                    THEN ParseFixedLen1(rec, o.key)
                    ELSE Failed
               [] o.type = "Identity" -> in1
               [] o.type = "Mul" ->
                    IF in1.ok /\ in2.ok
                    THEN [ok |-> TRUE, val |-> FMul(in1.val, in2.val)]
                    ELSE Failed
               [] o.type = "Add" ->
                    IF in1.ok /\ in2.ok
                    THEN [ok |-> TRUE, val |-> FAdd(in1.val, in2.val)]
                    ELSE Failed
               [] OTHER -> Failed

(***************************************************************************)
(* SavedModel protocol buffers and their two encodings.  A meta graph       *)
(* holds its tags, its graph and its signatures (a map from key to          *)
(* signature); a SavedModel holds a sequence of meta graphs.  The binary    *)
(* encoding writes each as field number 2, the text encoding as the field   *)
(* named meta_graphs, and each parser reads its own encoding only.          *)
(***************************************************************************)
TensorInfo(name) == [name |-> name]

MetaGraph(tags, g, sigs) == [tags |-> tags, graph_def |-> g, signature_def |-> sigs]

SerializeToString(mgs) == [i \in DOMAIN mgs |-> [tag |-> 2, msg |-> mgs[i]]]

TextFormat(mgs) == [i \in DOMAIN mgs |-> [field |-> "meta_graphs", msg |-> mgs[i]]]

ParseFromString(bytes) ==
    IF \A i \in DOMAIN bytes : "tag" \in DOMAIN bytes[i] /\ bytes[i].tag = 2
    THEN [ok |-> TRUE, meta_graphs |-> [i \in DOMAIN bytes |-> bytes[i].msg]]
    ELSE [ok |-> FALSE, meta_graphs |-> <<>>]

TextParse(text) ==
    IF \A i \in DOMAIN text :
          "field" \in DOMAIN text[i] /\ text[i].field = "meta_graphs"
    THEN [ok |-> TRUE, meta_graphs |-> [i \in DOMAIN text |-> text[i].msg]]
    ELSE [ok |-> FALSE, meta_graphs |-> <<>>]

(***************************************************************************)
(* Directories.  A directory holds at most the three files a SavedModel     *)
(* is made of: saved_model.pb, saved_model.pbtxt and the variable           *)
(* checkpoint under variables/.                                             *)
(***************************************************************************)
Absent ==
    [exists |-> FALSE, has_pb |-> FALSE, pb |-> <<>>, has_pbtxt |-> FALSE,
     pbtxt |-> <<>>, has_vars |-> FALSE, vars |-> <<>>]

EmptyDir == [Absent EXCEPT !.exists = TRUE]

(***************************************************************************)
(* SavedModelBuilder.                                                       *)
(***************************************************************************)
NoBuilder == [export_dir |-> "", meta_graphs |-> <<>>, has_saved_variables |-> FALSE]

\* the constructor refuses a path that exists already
BuilderCanInit(dir) == ~dir.exists

BuilderInit(export_dir) == [NoBuilder EXCEPT !.export_dir = export_dir]

\* add_meta_graph_and_variables saves the variables of the session (which
\* reads every variable of the graph) and appends the meta graph
Checkpoint(g, svars) ==
    LET vs == VariableOps(g)
    IN  [i \in DOMAIN vs |-> VarEntry(vs[i].name, ValueOf(svars, vs[i].name))]

WriteVariables(dir, g, svars) ==
    [dir EXCEPT !.exists = TRUE, !.has_vars = TRUE, !.vars = Checkpoint(g, svars)]

AddMetaGraph(b, tags, g, sigs) ==
    [b EXCEPT !.meta_graphs = Append(@, MetaGraph(tags, g, sigs)),
              !.has_saved_variables = TRUE]

\* save(as_text) writes saved_model.pbtxt in text form, else saved_model.pb
WriteSavedModel(dir, b, as_text) ==
    IF as_text
    THEN [dir EXCEPT !.exists = TRUE, !.has_pbtxt = TRUE,
                     !.pbtxt = TextFormat(b.meta_graphs)]
    ELSE [dir EXCEPT !.exists = TRUE, !.has_pb = TRUE,
                     !.pb = SerializeToString(b.meta_graphs)]

(***************************************************************************)
(* The SavedModel loader and a serving run: read saved_model.pb if there    *)
(* is one and saved_model.pbtxt otherwise, take the meta graph with the     *)
(* tags asked for, restore the variables from the checkpoint, feed the      *)
(* record to the signature's input and fetch the signature's output.        *)
(***************************************************************************)
ReadSavedModel(dir) ==
    IF dir.has_pb THEN ParseFromString(dir.pb)
    ELSE IF dir.has_pbtxt THEN TextParse(dir.pbtxt)
    ELSE [ok |-> FALSE, meta_graphs |-> <<>>]

Matching(mgs, tags) == SelectSeq(mgs, LAMBDA m : m.tags = tags)

LoadAndRun(dir, tags, key, rec) ==
    LET sm  == ReadSavedModel(dir)
        hit == Matching(sm.meta_graphs, tags)
    IN  IF ~sm.ok \/ hit = <<>> \/ ~dir.has_vars THEN Failed
        ELSE LET mg == hit[1]
             IN  IF key \notin DOMAIN mg.signature_def THEN Failed
                 ELSE LET sig == mg.signature_def[key]
                      IN  IF "input" \notin DOMAIN sig.inputs
                             \/ "output" \notin DOMAIN sig.outputs
                          THEN Failed
                          ELSE Eval(mg.graph_def, dir.vars,
                                    sig.outputs["output"].name,
                                    sig.inputs["input"].name, rec)

(***************************************************************************)
(* Values the script fixes.                                                 *)
(***************************************************************************)
\* Variant: a initialized to 1.0 (C1_OutputFidelity depends on a's value)
a_initial_value_one == Float(1, 0)

\* tf.Variable(0.5, name="a") and tf.Variable(2.0, name="b")
a_initial_value == Float(1, 1)
b_initial_value == Float(2, 0)

\* feature_configs = {"x": tf.FixedLenFeature([1], dtype=tf.float32)}
feature_key == "x"

\* constants.TAG_SERVING
TAG_SERVING == "serve"

\* Variant: the signature stored under another key (C3_BundleContents
\* depends on the key)
signature_key_default == "serving_default"

\* the key of signature_def_map, and the method name given to build_signature_def
signature_key == "regression"
method_name == "regression"

\* the default of the parameter as_text
as_text_default == FALSE

\* the two directories main exports to, and the as_text of its second call
export_dir_pb == "/tmp/saved_model/half_plus_two"
export_dir_pbtxt == "/tmp/saved_model/half_plus_two_pbtxt"
as_text_pbtxt == TRUE

\* a directory the script does not name, and the directories of the model
other_dir == "/tmp/saved_model/other"
Dirs == {export_dir_pb, export_dir_pbtxt, other_dir}

\* what main may be handed as its argument
Args == {"", other_dir}

(***************************************************************************)
(* The statements of _generate_saved_model_for_half_plus_two that call      *)
(* into the framework, each with the calls it makes in the order it makes   *)
(* them.  The with statement of line 49 makes its last call,                *)
(* Session.__exit__, when the block is left.  A fault point names a call    *)
(* of _generate_..., a statement and the framework call of the statement    *)
(* (at) that raises.                                                        *)
(***************************************************************************)
FrameworkCalls ==
    [L47 |-> <<"SavedModelBuilder">>,
     L49 |-> <<"tf.Graph", "tf.Session", "Session.__enter__", "Session.__exit__">>,
     L52 |-> <<"tf.Variable">>,
     L53 |-> <<"tf.Variable">>,
     L56 |-> <<"tf.placeholder">>,
     L61 |-> <<"tf.FixedLenFeature", "tf.parse_example">>,
     L63 |-> <<"tf_example.__getitem__", "tf.identity">>,
     L64 |-> <<"tf.mul", "tf.add">>,
     L69 |-> <<"meta_graph_pb2.TensorInfo", "Tensor.name", "TensorInfo.name">>,
     L73 |-> <<"meta_graph_pb2.TensorInfo", "tf.identity", "Tensor.name",
               "TensorInfo.name">>,
     L75 |-> <<"utils.build_signature_def">>,
     L79 |-> <<"tf.initialize_all_variables", "Session.run">>,
     L80 |-> <<"add_meta_graph_and_variables">>,
     L83 |-> <<"save">>]

FrameworkLines == DOMAIN FrameworkCalls

FaultPoints ==
    {p \in [call : 1..2, line : FrameworkLines, at : 1..4] :
        p.at <= Len(FrameworkCalls[p.line])}

\* Session.__exit__ of call c
ExitPoint(c) == [call |-> c, line |-> "L49", at |-> 4]

\* the statements inside the with block
WithLines == {"L52", "L53", "L56", "L61", "L63", "L64", "L69", "L73", "L75",
              "L79", "L80", "L83"}

(***************************************************************************)
(* The fault plan of a run: the fault points at which the framework raises  *)
(* in it.  Once a call has raised, the one framework call the script still  *)
(* makes is the Session.__exit__ of the with block the exception leaves,    *)
(* so a plan is empty, one point, or a point inside a with block and the    *)
(* __exit__ of that block.                                                  *)
(***************************************************************************)
NoFault == {}
FaultPlans ==
    {NoFault} \cup {{p} : p \in FaultPoints}
    \cup {{p, ExitPoint(p.call)} : p \in {q \in FaultPoints : q.line \in WithLines}}

NoExc == [kind |-> "", call |-> 0, line |-> ""]

\* a session is open from its creation to its close, and entered inside its
\* with block
NoSession == [open |-> FALSE, entered |-> FALSE, graph |-> 0, vars |-> <<>>]

EmptyMap == [k \in {} |-> TensorInfo("")]
NoSignature == [inputs |-> EmptyMap, outputs |-> EmptyMap, method_name |-> ""]

NoFrame ==
    [export_dir |-> "", as_text |-> FALSE, a |-> "", b |-> "",
     serialized_tf_example |-> "", tf_example_x |-> "", x |-> "", y |-> "",
     input_tensor |-> TensorInfo(""), output_tensor |-> TensorInfo(""),
     signature_def |-> NoSignature]

VARIABLES
    pc,             \* the statement about to run
    run,            \* how many times the script was started
    argv,           \* the argument main received
    call,           \* which call of _generate_... main is in (0: none)
    fault,          \* the fault plan of this run
    fs,             \* the directories
    fs0,            \* the directories as this run found them
    graphs,         \* the graphs of the process; graphs[1] is the global default
    default_graph,  \* the index of the current default graph
    sess,           \* the session of the current call
    builder,        \* the SavedModelBuilder of the current call
    frame,          \* the locals of the current call
    trace,          \* what this run did so far
    exc,            \* the exception in flight, or the one that ended the run
    served          \* the last answer of a loaded bundle

vars == <<pc, run, argv, call, fault, fs, fs0, graphs, default_graph, sess,
          builder, frame, trace, exc, served>>

NoAnswer == [dir |-> "", rec |-> <<>>, ok |-> FALSE, val |-> Zero]

Event(ev, arg) == [call |-> call, ev |-> ev, arg |-> arg]

BoolStr(b) == IF b THEN "True" ELSE "False"

\* the framework raises at this statement of this call
\* the points of the plan in the statement about to run; Session.__exit__
\* is not made by the statement at line 49 but on leaving the block
HereFaults ==
    {p \in fault : p.call = call /\ p.line = pc /\ p # ExitPoint(call)}

Faulty == HereFaults # {}

FaultAt == (CHOOSE p \in HereFaults : TRUE).at

ExitFaulty == ExitPoint(call) \in fault

FaultKind == IF pc \in {"L47", "L80", "L83"} THEN "IOError" ELSE "OpError"

CurrentGraph == graphs[default_graph]

Init ==
    /\ pc = "start"
    /\ run = 0
    /\ argv = ""
    /\ call = 0
    /\ fault = NoFault
    /\ fs \in [Dirs -> {Absent, EmptyDir}]
    /\ fs[other_dir] = Absent
    /\ fs0 = fs
    /\ graphs = << <<>> >>
    /\ default_graph = 1
    /\ sess = NoSession
    /\ builder = NoBuilder
    /\ frame = NoFrame
    /\ trace = <<>>
    /\ exc = NoExc
    /\ served = NoAnswer

(***************************************************************************)
(* A statement raises: the exception leaves the with block through the      *)
(* session's __exit__ when the statement is inside it, and leaves the       *)
(* function at once otherwise.  evs are the events logged before it.        *)
(***************************************************************************)
\* gs and ss are the graphs and the session the statement leaves behind
RaiseIn(kind, evs, gs, ss) ==
    /\ exc' = [kind |-> kind, call |-> call, line |-> pc]
    /\ trace' = trace \o evs \o <<Event("raise", kind)>>
    /\ pc' = IF pc \in WithLines THEN "exit_with" ELSE "gen_raise"
    /\ graphs' = gs
    /\ sess' = ss
    /\ UNCHANGED <<run, argv, call, fault, fs, fs0, default_graph, builder, frame,
                   served>>

Raise(kind, evs) == RaiseIn(kind, evs, graphs, sess)

\* a statement of the with block that adds operations to the default graph
\* and binds locals; before[k] are the operations its framework calls have
\* added when the k-th of them is made
AddOps(ops, fr, next, before) ==
    IF Faulty
    THEN RaiseIn(FaultKind, <<>>,
                 [graphs EXCEPT ![default_graph] = @ \o before[FaultAt]], sess)
    ELSE /\ graphs' = [graphs EXCEPT ![default_graph] = @ \o ops]
         /\ frame' = fr
         /\ pc' = next
         /\ UNCHANGED <<run, argv, call, fault, fs, fs0, default_graph, sess,
                        builder, trace, exc, served>>

(***************************************************************************)
(* tf.app.run(): a run of the script starts main in a new process.  The     *)
(* runs come first and the loads of their bundles after them: a load        *)
(* changes nothing a run reads.                                             *)
(***************************************************************************)
StartScript ==
    /\ pc \in {"start", "done", "raised"}
    /\ run < MaxRuns
    /\ served = NoAnswer
    /\ \E args \in Args, plan \in FaultPlans :
          /\ argv' = args
          /\ fault' = plan
    /\ pc' = "L87"
    /\ run' = run + 1
    /\ call' = 0
    /\ fs0' = fs
    /\ graphs' = << <<>> >>
    /\ default_graph' = 1
    /\ sess' = NoSession
    /\ builder' = NoBuilder
    /\ frame' = NoFrame
    /\ trace' = <<>>
    /\ exc' = NoExc
    /\ served' = NoAnswer
    /\ UNCHANGED fs

(***************************************************************************)
(* main.                                                                    *)
(***************************************************************************)
\* Variant: the second directory taken from main's argument
\* (C2_OnlyFixedDirs depends on main ignoring it)
MainSecondDirFromArgv == IF argv = "" THEN export_dir_pbtxt ELSE argv

\* Variant: as_text=True left out of the second call (C4_BinaryThenText
\* depends on it)
MainSecondAsTextOmitted == as_text_default

\* the directory and the as_text of main's two calls
MainFirstDir == export_dir_pb
MainFirstAsText == as_text_default
MainSecondDir == export_dir_pbtxt
MainSecondAsText == as_text_pbtxt

EnterGenerate(c, dir, as_text) ==
    /\ call' = c
    /\ frame' = [NoFrame EXCEPT !.export_dir = dir, !.as_text = as_text]
    /\ sess' = NoSession
    /\ builder' = NoBuilder
    /\ trace' = Append(trace, [call |-> c, ev |-> "call", arg |-> dir])
    /\ pc' = "L47"
    /\ UNCHANGED <<run, argv, fault, fs, fs0, graphs, default_graph, exc, served>>

Main88 ==
    /\ pc = "L87"
    /\ EnterGenerate(1, MainFirstDir, MainFirstAsText)

Main91 ==
    /\ pc = "L90"
    /\ EnterGenerate(2, MainSecondDir, MainSecondAsText)

MainReturn ==
    /\ pc = "L92"
    /\ pc' = "done"
    /\ call' = 0
    /\ UNCHANGED <<run, argv, fault, fs, fs0, graphs, default_graph, sess,
                   builder, frame, trace, exc, served>>

\* Variant: main catches the exception of the first call and goes on to the
\* second export (C8_NoRetryNoRecovery depends on main having no handler)
MainRaiseSwallowed ==
    /\ pc = "main_raise"
    /\ pc' = IF call = 1 THEN "L90" ELSE "raised"
    /\ UNCHANGED <<run, argv, call, fault, fs, fs0, graphs, default_graph, sess,
                   builder, frame, trace, exc, served>>

\* main has no handler: an exception of either call ends it
MainRaise ==
    /\ pc = "main_raise"
    /\ pc' = "raised"
    /\ call' = 0
    /\ UNCHANGED <<run, argv, fault, fs, fs0, graphs, default_graph, sess,
                   builder, frame, trace, exc, served>>

(***************************************************************************)
(* _generate_saved_model_for_half_plus_two(export_dir, as_text).            *)
(***************************************************************************)
\* builder = saved_model_builder.SavedModelBuilder(export_dir): the constructor
\* checks that the path is free and then creates the directory
Gen47 ==
    /\ pc = "L47"
    /\ LET dir == frame.export_dir
           ev  == <<Event("SavedModelBuilder", dir)>>
       IN  IF ~BuilderCanInit(fs[dir]) THEN Raise("AssertionError", ev)
           ELSE IF Faulty THEN Raise(FaultKind, ev)
           ELSE /\ builder' = BuilderInit(dir)
                /\ fs' = [fs EXCEPT ![dir] = EmptyDir]
                /\ trace' = trace \o ev \o <<Event("mkdir", dir)>>
                /\ pc' = "L49"
                /\ UNCHANGED <<run, argv, call, fault, fs0, graphs, default_graph,
                               sess, frame, exc, served>>

\* Variant: tf.Session() without graph=tf.Graph(), which uses the process's
\* default graph (C9_ExportsEquivalent depends on the fresh graph)
SessionGraphDefault(gs) == [graphs |-> gs, id |-> 1]

\* graph=tf.Graph(): the session gets a graph of its own
SessionGraph(gs) == [graphs |-> Append(gs, <<>>), id |-> Len(gs) + 1]

\* with tf.Session(graph=tf.Graph()) as sess: the graph is made, then the
\* session, then the session is entered
Gen49 ==
    /\ pc = "L49"
    /\ LET r       == SessionGraph(graphs)
           created == [open |-> TRUE, entered |-> FALSE, graph |-> r.id,
                       vars |-> <<>>]
       IN  IF Faulty /\ FaultAt = 1 THEN Raise(FaultKind, <<>>)
           ELSE IF Faulty /\ FaultAt = 2
                THEN RaiseIn(FaultKind, <<>>, r.graphs, sess)
           ELSE IF Faulty
                \* __enter__ raises: __exit__ is not called, and the session
                \* that was created stays unclosed
                THEN RaiseIn(FaultKind, <<>>, r.graphs, created)
           ELSE /\ graphs' = r.graphs
                /\ sess' = [created EXCEPT !.entered = TRUE]
                /\ default_graph' = r.id
                /\ trace' = Append(trace, Event("session_open", ""))
                /\ pc' = "L52"
                /\ UNCHANGED <<run, argv, call, fault, fs, fs0, builder, frame,
                               exc, served>>

\* a = tf.Variable(0.5, name="a")
Gen52 ==
    /\ pc = "L52"
    /\ LET nm == UniqueName(CurrentGraph, "a")
       IN  AddOps(<<Op(nm, "Variable", <<>>, a_initial_value, "")>>,
                  [frame EXCEPT !.a = nm], "L53", << <<>> >>)

\* b = tf.Variable(2.0, name="b")
Gen53 ==
    /\ pc = "L53"
    /\ LET nm == UniqueName(CurrentGraph, "b")
       IN  AddOps(<<Op(nm, "Variable", <<>>, b_initial_value, "")>>,
                  [frame EXCEPT !.b = nm], "L56", << <<>> >>)

\* serialized_tf_example = tf.placeholder(tf.string, name="tf_example")
Gen56 ==
    /\ pc = "L56"
    /\ LET nm == UniqueName(CurrentGraph, "tf_example")
       IN  AddOps(<<Op(nm, "Placeholder", <<>>, Zero, "")>>,
                  [frame EXCEPT !.serialized_tf_example = TensorName(nm)], "L61",
                  << <<>> >>)

\* tf_example = tf.parse_example(serialized_tf_example, feature_configs)
Gen61 ==
    /\ pc = "L61"
    /\ LET nm == UniqueName(CurrentGraph, "ParseExample/ParseExample")
       IN  AddOps(<<Op(nm, "ParseExample", <<frame.serialized_tf_example>>,
                       Zero, feature_key)>>,
                  [frame EXCEPT !.tf_example_x = TensorName(nm)], "L63",
                  << <<>>, <<>> >>)

\* x = tf.identity(tf_example["x"], name="x")
Gen63 ==
    /\ pc = "L63"
    /\ LET nm == UniqueName(CurrentGraph, "x")
       IN  AddOps(<<Op(nm, "Identity", <<frame.tf_example_x>>, Zero, "")>>,
                  [frame EXCEPT !.x = TensorName(nm)], "L64", << <<>>, <<>> >>)

\* y = tf.add(tf.mul(a, x), b, name="y"): the two operations, the product
\* first, named mul and out in graph g
OpsOfY(g, fr, mul, out) ==
    << Op(mul, "Mul", <<TensorName(fr.a), fr.x>>, Zero, ""),
       Op(out, "Add", <<TensorName(mul), TensorName(fr.b)>>, Zero, "") >>

Gen64 ==
    /\ pc = "L64"
    /\ LET mul == UniqueName(CurrentGraph, "Mul")
           out == UniqueName(CurrentGraph, "y")
           ops == OpsOfY(CurrentGraph, frame, mul, out)
       IN  AddOps(ops, [frame EXCEPT !.y = TensorName(out)], "L69",
                  << <<>>, SubSeq(ops, 1, 1) >>)

\* input_tensor.name = serialized_tf_example.name
InputTensorName(fr) == fr.serialized_tf_example

\* input_tensor = meta_graph_pb2.TensorInfo() and the two lines after it
Gen69 ==
    /\ pc = "L69"
    /\ AddOps(<<>>,
              [frame EXCEPT !.input_tensor = TensorInfo(InputTensorName(frame))],
              "L73", << <<>>, <<>>, <<>> >>)

\* Variant: the output names an identity of x (C5_SignatureTensors depends
\* on the identity being taken of y)
IdentityInputX(fr) == fr.x

\* output_tensor.name = tf.identity(y).name: the input of the new operation
IdentityInput(fr) == fr.y

Gen73 ==
    /\ pc = "L73"
    /\ LET nm == UniqueName(CurrentGraph, "Identity")
           ops == <<Op(nm, "Identity", <<IdentityInput(frame)>>, Zero, "")>>
       IN  AddOps(ops,
                  [frame EXCEPT !.output_tensor = TensorInfo(TensorName(nm))],
                  "L75", << <<>>, <<>>, ops, ops >>)

\* signature_def = utils.build_signature_def(signature_inputs,
\*                                           signature_outputs, "regression")
BuildSignatureDef(fr) ==
    [inputs      |-> [k \in {"input"} |-> fr.input_tensor],
     outputs     |-> [k \in {"output"} |-> fr.output_tensor],
     method_name |-> method_name]

Gen75 ==
    /\ pc = "L75"
    /\ IF Faulty THEN Raise(FaultKind, <<>>)
       ELSE /\ frame' = [frame EXCEPT !.signature_def = BuildSignatureDef(frame)]
            /\ pc' = "L79"
            /\ UNCHANGED <<run, argv, call, fault, fs, fs0, graphs, default_graph,
                           sess, builder, trace, exc, served>>

\* Variant: the init operation is created but never run
\* (C6_InitializedBeforePersisted depends on the run)
Gen79InitNotRun ==
    /\ pc = "L79"
    /\ LET nm == UniqueName(CurrentGraph, "init")
           ops == <<Op(nm, "NoOp", <<>>, Zero, "")>>
       IN  AddOps(ops, frame, "L80", << <<>>, ops >>)

\* sess.run(tf.initialize_all_variables())
Gen79 ==
    /\ pc = "L79"
    /\ LET nm == UniqueName(CurrentGraph, "init")
           g  == Append(CurrentGraph, Op(nm, "NoOp", <<>>, Zero, ""))
       IN  IF Faulty /\ FaultAt = 1 THEN Raise(FaultKind, <<>>)
           ELSE IF Faulty
                THEN RaiseIn(FaultKind, <<>>,
                             [graphs EXCEPT ![default_graph] = g], sess)
           ELSE /\ graphs' = [graphs EXCEPT ![default_graph] = g]
                /\ sess' = [sess EXCEPT !.vars = RunInit(graphs'[sess.graph])]
                /\ trace' = Append(trace, Event("init_run", ""))
                /\ pc' = "L80"
                /\ UNCHANGED <<run, argv, call, fault, fs, fs0, default_graph,
                               builder, frame, exc, served>>

\* Variant: the tags depend on as_text (C10_OncePerExport depends on as_text
\* reaching save only)
TagsByEncoding == IF frame.as_text THEN {TAG_SERVING, "text"} ELSE {TAG_SERVING}

\* the tags and the signature_def_map given to add_meta_graph_and_variables
Tags == {TAG_SERVING}
SignatureDefMap(fr) == [k \in {signature_key} |-> fr.signature_def]

\* builder.add_meta_graph_and_variables(sess, [constants.TAG_SERVING],
\*     signature_def_map={"regression": signature_def})
Gen80 ==
    /\ pc = "L80"
    /\ LET dir == builder.export_dir
           ev  == <<Event("add_meta_graph_and_variables", dir)>>
       IN  IF Faulty THEN Raise(FaultKind, ev)
           ELSE IF builder.has_saved_variables THEN Raise("AssertionError", ev)
           ELSE IF ~AllInitialized(CurrentGraph, sess.vars)
                THEN Raise("FailedPreconditionError", ev)
           ELSE /\ fs' = [fs EXCEPT ![dir] = WriteVariables(@, CurrentGraph, sess.vars)]
                /\ builder' = AddMetaGraph(builder, Tags, CurrentGraph,
                                           SignatureDefMap(frame))
                /\ trace' = trace \o ev \o <<Event("write_variables", dir)>>
                /\ pc' = "L83"
                /\ UNCHANGED <<run, argv, call, fault, fs0, graphs, default_graph,
                               sess, frame, exc, served>>

\* builder.save(as_text)
SaveArg(fr) == fr.as_text

Gen83 ==
    /\ pc = "L83"
    /\ LET dir == builder.export_dir
           ev  == <<Event("save", BoolStr(SaveArg(frame)))>>
       IN  IF Faulty THEN Raise(FaultKind, ev)
           ELSE /\ fs' = [fs EXCEPT ![dir] = WriteSavedModel(@, builder, SaveArg(frame))]
                /\ trace' = trace \o ev \o <<Event("write_saved_model", dir)>>
                /\ pc' = "exit_with"
                /\ UNCHANGED <<run, argv, call, fault, fs0, graphs, default_graph,
                               sess, builder, frame, exc, served>>

\* Variant: the session is entered without a with block and never closed
\* (C7_ScopedSession depends on __exit__ closing it)
WithExitLeavesOpen ==
    /\ pc = "exit_with"
    /\ pc' = IF exc = NoExc THEN "gen_return" ELSE "gen_raise"
    /\ UNCHANGED <<run, argv, call, fault, fs, fs0, graphs, default_graph, sess,
                   builder, frame, trace, exc, served>>

\* the end of the with block, reached by falling off it or by an exception:
\* the session's __exit__ closes the session and lets the exception pass
\* When __exit__ itself raises, the session stays entered and open, and its
\* exception takes the place of the one that was leaving the block.
WithExit ==
    /\ pc = "exit_with"
    /\ IF ExitFaulty
       THEN /\ exc' = [kind |-> "OpError", call |-> call, line |-> "L49"]
            /\ trace' = Append(trace, Event("raise", "OpError"))
            /\ pc' = "gen_raise"
            /\ UNCHANGED <<sess, default_graph>>
       ELSE /\ sess' = [sess EXCEPT !.open = FALSE, !.entered = FALSE,
                                    !.vars = <<>>]
            /\ default_graph' = 1
            /\ trace' = Append(trace, Event("session_close", ""))
            /\ pc' = IF exc = NoExc THEN "gen_return" ELSE "gen_raise"
            /\ UNCHANGED exc
    /\ UNCHANGED <<run, argv, call, fault, fs, fs0, graphs, builder, frame,
                   served>>

\* the call returns to main, after line 88 or after line 91
GenReturn ==
    /\ pc = "gen_return"
    /\ trace' = Append(trace, Event("return", frame.export_dir))
    /\ pc' = IF call = 1 THEN "L90" ELSE "L92"
    /\ UNCHANGED <<run, argv, call, fault, fs, fs0, graphs, default_graph, sess,
                   builder, frame, exc, served>>

\* the call raises into main
GenRaise ==
    /\ pc = "gen_raise"
    /\ trace' = Append(trace, Event("raised", frame.export_dir))
    /\ pc' = "main_raise"
    /\ UNCHANGED <<run, argv, call, fault, fs, fs0, graphs, default_graph, sess,
                   builder, frame, exc, served>>

(***************************************************************************)
(* A user of the fixtures loads the bundle of a directory for the serving   *)
(* tag and runs its "regression" signature on one serialized record.        *)
(***************************************************************************)
Load ==
    /\ pc \in {"start", "done", "raised"}
    /\ served = NoAnswer
    /\ \E dir \in Dirs, rec \in Examples :
          LET r == LoadAndRun(fs[dir], {"serve"}, "regression", rec)
          IN  served' = [dir |-> dir, rec |-> rec, ok |-> r.ok, val |-> r.val]
    /\ UNCHANGED <<pc, run, argv, call, fault, fs, fs0, graphs, default_graph,
                   sess, builder, frame, trace, exc>>

Next ==
    \/ StartScript \/ Main88 \/ Main91 \/ MainReturn \/ MainRaise
    \/ Gen47 \/ Gen49 \/ Gen52 \/ Gen53 \/ Gen56 \/ Gen61 \/ Gen63 \/ Gen64
    \/ Gen69 \/ Gen73 \/ Gen75 \/ Gen79 \/ Gen80 \/ Gen83
    \/ WithExit \/ GenReturn \/ GenRaise
    \/ Load

Spec == Init /\ [][Next]_vars

(***************************************************************************)
(* Vocabulary of the properties.                                            *)
(***************************************************************************)
ExportDirs == {"/tmp/saved_model/half_plus_two", "/tmp/saved_model/half_plus_two_pbtxt"}

\* the positions of this run's events of call c named ev
EventsOf(c, ev) == {i \in DOMAIN trace : trace[i].call = c /\ trace[i].ev = ev}

Count(c, ev) == Cardinality(EventsOf(c, ev))

WriteEvents == {"mkdir", "write_variables", "write_saved_model"}

\* this run wrote a saved_model file to dir
WroteBundle(dir) ==
    \E i \in DOMAIN trace : trace[i].ev = "write_saved_model" /\ trace[i].arg = dir

RunEnded == run > 0 /\ pc \in {"done", "raised"}

\* y = 0.5 * v + 2, by cross multiplication:
\* y.n / 2^y.e = (v.n + 2^(v.e + 2)) / 2^(v.e + 1)
IsHalfPlusTwo(v, y) == y.n * Pow2(v.e + 1) = (v.n + Pow2(v.e + 2)) * Pow2(y.e)

\* a directory holding a whole bundle
HoldsBundle(d) == d.has_vars /\ (d.has_pb \/ d.has_pbtxt)

(***************************************************************************)
(* C1: a bundle written by the script, loaded and fed a serialized record   *)
(* whose field x is v, answers y = 0.5 * v + 2, from the binary bundle and  *)
(* from the text bundle alike.                                              *)
(***************************************************************************)
C1_OutputFidelity ==
    \A v \in Values :
        (/\ served.dir \in ExportDirs
         /\ HoldsBundle(fs[served.dir])
         /\ served.rec \in ExamplesWithX(v))
        => served.ok /\ IsHalfPlusTwo(v, served.val)

\* the text bundle answers 2.25 for x = 0.5 while the binary bundle exists
C1_Witness ==
    /\ served.dir = "/tmp/saved_model/half_plus_two_pbtxt"
    /\ fs["/tmp/saved_model/half_plus_two"].has_pb
    /\ served.rec = <<Feature("z", <<Zero>>), Feature("x", <<[n |-> 1, e |-> 1]>>)>>
    /\ served.ok
    /\ served.val = [n |-> 9, e |-> 2]

(***************************************************************************)
(* C2 as stated: every run of main writes one bundle to each of the two     *)
(* fixed directories, whatever its argument and whatever the directories    *)
(* held before the run.  Stated of the runs in which the framework meets    *)
(* no failure of its own, so that only the state of the directories is      *)
(* left to decide it.                                                       *)
(***************************************************************************)
C2_AlwaysWritesBoth ==
    (RunEnded /\ fault = NoFault) =>
        /\ WroteBundle("/tmp/saved_model/half_plus_two")
        /\ WroteBundle("/tmp/saved_model/half_plus_two_pbtxt")

(***************************************************************************)
(* C2 amended: whatever its argument, main writes to no directory but the   *)
(* two fixed ones; a run that ends without an exception found both absent   *)
(* and wrote one bundle to each; a run that finds half_plus_two present     *)
(* (a second run after a completed one) raises and writes nothing.          *)
(***************************************************************************)
C2_OnlyFixedDirs ==
    /\ \A d \in Dirs \ ExportDirs : fs[d] = fs0[d]
    /\ \A i \in DOMAIN trace :
          trace[i].ev \in WriteEvents => trace[i].arg \in ExportDirs
    /\ pc = "done" =>
          /\ WroteBundle("/tmp/saved_model/half_plus_two")
          /\ WroteBundle("/tmp/saved_model/half_plus_two_pbtxt")
          /\ HoldsBundle(fs["/tmp/saved_model/half_plus_two"])
          /\ HoldsBundle(fs["/tmp/saved_model/half_plus_two_pbtxt"])
          /\ \A d \in ExportDirs : ~fs0[d].exists
    /\ (run > 0 /\ fs0["/tmp/saved_model/half_plus_two"].exists) =>
          /\ fs = fs0
          /\ pc # "done"
          /\ RunEnded => exc.kind = "AssertionError"

\* a second run, given an argument, finds the first run's bundle and raises
C2_Witness ==
    /\ run = 2
    /\ pc = "raised"
    /\ argv = "/tmp/saved_model/other"
    /\ fs0["/tmp/saved_model/half_plus_two"].has_pb
    /\ fs0["/tmp/saved_model/half_plus_two_pbtxt"].has_pbtxt
    /\ exc = [kind |-> "AssertionError", call |-> 1, line |-> "L47"]

(***************************************************************************)
(* C3: after a call that returned, the bundle at export_dir holds exactly   *)
(* one graph definition, one variable checkpoint and exactly one            *)
(* signature, stored under the key "regression", and the call wrote to no   *)
(* other directory.                                                         *)
(***************************************************************************)
C3_BundleContents ==
    \A i \in DOMAIN trace :
        trace[i].ev = "return" =>
            LET dir == trace[i].arg
                sm  == ReadSavedModel(fs[dir])
            IN  /\ sm.ok
                /\ Len(sm.meta_graphs) = 1
                /\ DOMAIN sm.meta_graphs[1].signature_def = {"regression"}
                /\ fs[dir].has_vars
                /\ fs[dir].has_pb # fs[dir].has_pbtxt
                /\ \A j \in DOMAIN trace :
                      (trace[j].call = trace[i].call /\ trace[j].ev \in WriteEvents)
                      => trace[j].arg = dir
                /\ \A d \in Dirs \ ExportDirs : fs[d] = fs0[d]
                /\ trace[i].call = 1 /\ pc = "L90" =>
                      \A d \in Dirs \ {dir} : fs[d] = fs0[d]

\* the first call has just returned
C3_Witness ==
    /\ pc = "L90"
    /\ Count(1, "return") = 1
    /\ fs["/tmp/saved_model/half_plus_two"].has_pb
    /\ ~fs["/tmp/saved_model/half_plus_two_pbtxt"].exists

(***************************************************************************)
(* C4: main's first export goes to half_plus_two with as_text false, the    *)
(* default of the parameter, and is written in binary; its second export    *)
(* goes to half_plus_two_pbtxt with as_text true and is written as text;    *)
(* the binary export is complete before the text export begins.             *)
(***************************************************************************)
C4_BinaryThenText ==
    /\ call = 1 =>
          /\ frame.export_dir = "/tmp/saved_model/half_plus_two"
          /\ frame.as_text = FALSE
          /\ frame.as_text = as_text_default
    /\ call = 2 =>
          /\ frame.export_dir = "/tmp/saved_model/half_plus_two_pbtxt"
          /\ frame.as_text = TRUE
    /\ \A i \in DOMAIN trace :
          /\ (trace[i].ev = "save" /\ trace[i].call = 1) => trace[i].arg = "False"
          /\ (trace[i].ev = "save" /\ trace[i].call = 2) => trace[i].arg = "True"
          /\ trace[i].call = 2 =>
                \E j, k \in 1..(i - 1) :
                    /\ j < k
                    /\ trace[j] = [call |-> 1, ev |-> "write_saved_model",
                                   arg |-> "/tmp/saved_model/half_plus_two"]
                    /\ trace[k] = [call |-> 1, ev |-> "return",
                                   arg |-> "/tmp/saved_model/half_plus_two"]
    /\ pc = "done" =>
          LET d1 == fs["/tmp/saved_model/half_plus_two"]
              d2 == fs["/tmp/saved_model/half_plus_two_pbtxt"]
          IN  /\ d1.has_pb /\ ~d1.has_pbtxt /\ ParseFromString(d1.pb).ok
              /\ d2.has_pbtxt /\ ~d2.has_pb /\ TextParse(d2.pbtxt).ok
              /\ Len(d1.pb) = 1 /\ Len(d2.pbtxt) = 1

\* the text export is about to be saved, the binary one is on disk
C4_Witness ==
    /\ call = 2
    /\ pc = "L83"
    /\ frame.as_text
    /\ fs["/tmp/saved_model/half_plus_two"].has_pb
    /\ ~fs["/tmp/saved_model/half_plus_two_pbtxt"].has_pbtxt

(***************************************************************************)
(* C5: in every saved bundle the signature maps "input" to the tensor of    *)
(* the placeholder named tf_example and "output" to a tensor whose value    *)
(* equals that of y = a*x + b on every record; both tensors are in the      *)
(* saved graph.                                                             *)
(***************************************************************************)
SignatureOk(mg, ckpt) ==
    LET g   == mg.graph_def
        sig == mg.signature_def["regression"]
        in  == sig.inputs["input"].name
        out == sig.outputs["output"].name
    IN  /\ DOMAIN sig.inputs = {"input"}
        /\ DOMAIN sig.outputs = {"output"}
        /\ in = "tf_example:0"
        /\ HasTensor(g, in)
        /\ OpOfTensor(g, in).type = "Placeholder"
        /\ HasTensor(g, out)
        /\ HasTensor(g, "y:0")
        /\ OpOfTensor(g, "y:0").type = "Add"

\* the output tensor evaluates like y on every record
OutputIsY(mg, ckpt) ==
    LET g   == mg.graph_def
        sig == mg.signature_def["regression"]
        in  == sig.inputs["input"].name
        out == sig.outputs["output"].name
    IN  /\ \A rec \in Examples :
              Eval(g, ckpt, out, in, rec) = Eval(g, ckpt, "y:0", in, rec)
        /\ \E rec \in Examples : Eval(g, ckpt, out, in, rec).ok

\* the names are checked of every bundle on disk, the values of every bundle
\* as save has just written it
C5_SignatureTensors ==
    \A d \in Dirs :
        (fs[d].has_pb \/ fs[d].has_pbtxt) =>
            LET sm == ReadSavedModel(fs[d])
            IN  /\ sm.ok
                /\ sm.meta_graphs # <<>>
                /\ \A i \in DOMAIN sm.meta_graphs :
                      /\ SignatureOk(sm.meta_graphs[i], fs[d].vars)
                      /\ (pc = "exit_with" /\ exc = NoExc /\ d = frame.export_dir)
                            => OutputIsY(sm.meta_graphs[i], fs[d].vars)

\* a saved bundle whose output tensor is not y itself
C5_Witness ==
    /\ pc = "exit_with"
    /\ call = 1
    /\ fs["/tmp/saved_model/half_plus_two"].has_pb
    /\ frame.signature_def.outputs["output"].name = "Identity:0"
    /\ frame.y = "y:0"

(***************************************************************************)
(* C6: in every export the initialization run precedes                      *)
(* add_meta_graph_and_variables, which precedes save, and the checkpoint    *)
(* of every written bundle holds a = 0.5 and b = 2.0.                       *)
(***************************************************************************)
C6_InitializedBeforePersisted ==
    /\ \A i \in DOMAIN trace :
          /\ trace[i].ev = "add_meta_graph_and_variables" =>
                \E j \in 1..(i - 1) :
                    trace[j].ev = "init_run" /\ trace[j].call = trace[i].call
          /\ trace[i].ev = "save" =>
                \E j \in 1..(i - 1) :
                    /\ trace[j].ev = "write_variables"
                    /\ trace[j].call = trace[i].call
    /\ \A d \in Dirs :
          fs[d].has_vars =>
              fs[d].vars = << [name |-> "a", val |-> [n |-> 1, e |-> 1]],
                              [name |-> "b", val |-> [n |-> 2, e |-> 0]] >>

\* the second export wrote its checkpoint and is about to save
C6_Witness ==
    /\ call = 2
    /\ pc = "L83"
    /\ fs["/tmp/saved_model/half_plus_two_pbtxt"].has_vars
    /\ Count(2, "init_run") = 1

(***************************************************************************)
(* Contexts of this run that are open: sessions entered and not yet         *)
(* closed.                                                                  *)
(***************************************************************************)
Opened(c) == Count(c, "session_open")
Closed(c) == Count(c, "session_close")
OpenSessions == (Opened(1) + Opened(2)) - (Closed(1) + Closed(2))

CallEnded == pc \in {"gen_return", "gen_raise"}

\* the exception in flight was raised by the session's __enter__
EnterRaised ==
    /\ exc.line = "L49"
    /\ [call |-> exc.call, line |-> "L49", at |-> 3] \in fault

\* the exception in flight was raised by the session's __exit__
ExitRaised ==
    /\ exc.line = "L49"
    /\ ExitPoint(exc.call) \in fault

\* what C7 says besides how many contexts a call opens
ScopedSessionRest ==
    /\ pc \in WithLines => (sess.entered /\ OpenSessions = 1)
    /\ \A i \in DOMAIN trace :
          trace[i].ev \in {"init_run", "add_meta_graph_and_variables", "save"} =>
              \E j \in 1..(i - 1) :
                  /\ trace[j].ev = "session_open"
                  /\ trace[j].call = trace[i].call
                  /\ \A k \in j..i : trace[k].ev # "session_close"
    /\ OpenSessions \in {0, 1}
    /\ sess.entered <=> OpenSessions = 1
    /\ sess.entered => sess.open

(***************************************************************************)
(* C7 as stated: each call opens a single context and closes it before it   *)
(* returns, whether it succeeds or raises; all the work happens while the   *)
(* context is open; never more than one is open and none when main ends.    *)
(* Stated of the runs in which the framework meets no failure of its own:   *)
(* a call still raises when its export directory exists.                    *)
(***************************************************************************)
C7_OneSessionPerCall ==
    /\ (CallEnded /\ fault = NoFault) =>
          (Opened(call) = 1 /\ Closed(call) = 1 /\ ~sess.open)
    /\ pc \in {"done", "raised"} => OpenSessions = 0
    /\ ScopedSessionRest

(***************************************************************************)
(* C7 amended: each call opens at most one context: exactly one once the    *)
(* builder construction of line 47 and the with statement of line 49        *)
(* succeeded, none when one of them raises; a context that was opened is    *)
(* closed before the call returns, whether it succeeds or raises, unless    *)
(* the session's __exit__ itself raises: then the context is still open     *)
(* when the call and main end.  The work happens while the context is       *)
(* open, and never more than one is open.  Besides, when the session's      *)
(* __enter__ raises, the session was created, never entered, and is not     *)
(* closed.                                                                  *)
(***************************************************************************)
C7_ScopedSession ==
    /\ CallEnded =>
          /\ sess.entered <=> ExitRaised
          /\ Opened(call) = Closed(call) + (IF ExitRaised THEN 1 ELSE 0)
          /\ Opened(call) =
                (IF exc.line = "L47" \/ (exc.line = "L49" /\ ~ExitRaised)
                 THEN 0 ELSE 1)
          /\ sess.open <=> (EnterRaised \/ ExitRaised)
    /\ (sess.open /\ ~sess.entered) => EnterRaised
    /\ pc \in {"done", "raised"} =>
          /\ sess.open <=> (EnterRaised \/ ExitRaised)
          /\ OpenSessions = (IF ExitRaised THEN 1 ELSE 0)
    /\ pc = "done" => OpenSessions = 0
    /\ ScopedSessionRest

\* a call that raised inside the with block and is about to leave, closed
C7_Witness ==
    /\ pc = "gen_raise"
    /\ call = 2
    /\ exc.line = "L80"
    /\ Opened(2) = 1
    /\ Closed(2) = 1
    /\ ~sess.open
    /\ ~sess.entered

(***************************************************************************)
(* The steps of an export that the script attempts, and the raise events    *)
(* of the run.                                                              *)
(***************************************************************************)
Attempts == {"SavedModelBuilder", "session_open", "init_run",
             "add_meta_graph_and_variables", "save"}

Raises == {i \in DOMAIN trace : trace[i].ev = "raise"}

\* what C8 says besides which exception leaves the call and main
NoRetryRest ==
    /\ \A c \in 1..2 : \A ev \in Attempts \cup {"call"} : Count(c, ev) <= 1
    /\ exc # NoExc =>
          /\ pc \in {"exit_with", "gen_raise", "main_raise", "raised"}
          /\ Count(exc.call, "raise") >= 1
          /\ exc.call = 1 => Count(2, "call") = 0
          /\ \/ exc.line = "L47"
             \/ \E p \in fault : p.call = exc.call /\ p.line = exc.line
    /\ pc = "done" => (exc = NoExc /\ Raises = {})
    /\ pc = "raised" => exc # NoExc

(***************************************************************************)
(* C8 as stated: an exception raised by the framework during an export      *)
(* leaves the call and main unchanged; nothing is attempted after it, and   *)
(* nothing twice; when the first export fails the second is never started.  *)
(***************************************************************************)
C8_PropagatesUnchanged ==
    /\ \A i \in Raises :
          /\ exc = [kind |-> trace[i].arg, call |-> trace[i].call,
                    line |-> exc.line]
          /\ \A j \in (i + 1)..Len(trace) :
                /\ trace[j].ev \in {"session_close", "raised"}
                /\ trace[j].call = trace[i].call
    /\ \A c \in 1..2 : Count(c, "raise") <= 1
    /\ NoRetryRest

(***************************************************************************)
(* C8 amended: there is no retry and no recovery: after the framework       *)
(* raised during an export no step of the export is attempted, none is      *)
(* attempted twice, and when the first export fails the second is never     *)
(* started.  The exception propagates out of the call and out of main       *)
(* unchanged, unless the session's __exit__ raises while the exception      *)
(* leaves the with block: then the exception of __exit__ takes its place    *)
(* and is the one that leaves the call and main.                            *)
(***************************************************************************)
C8_NoRetryNoRecovery ==
    /\ \A i \in Raises :
          /\ \A j \in (i + 1)..Len(trace) :
                /\ trace[j].ev \in {"session_close", "raised", "raise"}
                /\ trace[j].call = trace[i].call
          /\ (\A j \in Raises : j <= i) =>
                exc = [kind |-> trace[i].arg, call |-> trace[i].call,
                       line |-> exc.line]
    /\ \A c \in 1..2 :
          /\ Count(c, "raise") <= 2
          /\ Count(c, "raise") = 2 =>
                /\ ExitRaised
                /\ exc = [kind |-> "OpError", call |-> c, line |-> "L49"]
                /\ Opened(c) = 1
                /\ Closed(c) = 0
                /\ \E p \in fault : p.call = c /\ p.line \in WithLines
    /\ (exc # NoExc /\ ~ExitRaised) => Count(exc.call, "raise") = 1
    /\ NoRetryRest

\* the first export failed to write its variables and the session's __exit__
\* raised as that error left the block; main ended with the error of __exit__
C8_Witness ==
    /\ pc = "raised"
    /\ exc = [kind |-> "OpError", call |-> 1, line |-> "L49"]
    /\ Count(1, "raise") = 2
    /\ \E i \in Raises : trace[i].arg = "IOError"
    /\ [call |-> 1, line |-> "L80", at |-> 1] \in fault
    /\ Count(2, "call") = 0
    /\ ~fs["/tmp/saved_model/half_plus_two_pbtxt"].exists

(***************************************************************************)
(* C9: each call builds its graph in a fresh graph with a fresh builder,    *)
(* so nothing of the first export is carried into the second, and the two   *)
(* bundles of a run hold the same operation names (a, b, tf_example, x, y   *)
(* among them), the same variable values and the same signature; they       *)
(* differ in the encoding only.                                             *)
(***************************************************************************)
C9_ExportsEquivalent ==
    /\ pc = "L52" => (CurrentGraph = <<>> /\ builder.meta_graphs = <<>>)
    /\ pc \in WithLines =>
          /\ Len(builder.meta_graphs) <= 1
          /\ Cardinality(OpNames(CurrentGraph)) = Len(CurrentGraph)
          /\ Len(CurrentGraph) <= 10
    /\ pc = "done" =>
          LET d1 == fs["/tmp/saved_model/half_plus_two"]
              d2 == fs["/tmp/saved_model/half_plus_two_pbtxt"]
              m1 == ParseFromString(d1.pb).meta_graphs
              m2 == TextParse(d2.pbtxt).meta_graphs
          IN  /\ Len(m1) = 1 /\ Len(m2) = 1
              /\ {"a", "b", "tf_example", "x", "y"} \subseteq OpNames(m1[1].graph_def)
              /\ OpNames(m1[1].graph_def) = OpNames(m2[1].graph_def)
              /\ m1[1].graph_def = m2[1].graph_def
              /\ m1[1].signature_def = m2[1].signature_def
              /\ m1[1].tags = m2[1].tags
              /\ d1.vars = d2.vars
              /\ d1.has_pb /\ ~d2.has_pb
              /\ d2.has_pbtxt /\ ~d1.has_pbtxt

\* both bundles of a run are on disk
C9_Witness ==
    /\ pc = "done"
    /\ run = 1
    /\ Len(graphs) = 3
    /\ fs["/tmp/saved_model/half_plus_two"].has_pb
    /\ fs["/tmp/saved_model/half_plus_two_pbtxt"].has_pbtxt

(***************************************************************************)
(* C10: an export runs the initialization once, adds one meta graph,        *)
(* tagged with the serving tag only, and calls save once, after the meta    *)
(* graph was added; as_text reaches nothing but the argument of save.       *)
(***************************************************************************)
\* the events of call c, without the arguments that name the directory
Steps(c) ==
    LET es == SelectSeq(trace, LAMBDA e : e.call = c)
    IN  [i \in DOMAIN es |-> IF es[i].ev = "save" THEN "save" ELSE es[i].ev]

C10_OncePerExport ==
    /\ \A c \in 1..2 :
          /\ Count(c, "init_run") <= 1
          /\ Count(c, "add_meta_graph_and_variables") <= 1
          /\ Count(c, "save") <= 1
          /\ Count(c, "return") = 1 =>
                /\ Count(c, "init_run") = 1
                /\ Count(c, "add_meta_graph_and_variables") = 1
                /\ Count(c, "write_variables") = 1
                /\ Count(c, "save") = 1
                /\ Count(c, "write_saved_model") = 1
    /\ \A i \in DOMAIN trace :
          trace[i].ev = "save" =>
              /\ trace[i].arg = (IF trace[i].call = 2 THEN "True" ELSE "False")
              /\ \E j \in 1..(i - 1) :
                    /\ trace[j].ev = "write_variables"
                    /\ trace[j].call = trace[i].call
    /\ (pc \in {"L83", "exit_with", "gen_return"} /\ exc = NoExc) =>
          /\ Len(builder.meta_graphs) = 1
          /\ builder.meta_graphs[1].tags = {"serve"}
          /\ ReadSavedModel(WriteSavedModel(fs[frame.export_dir], builder,
                                            frame.as_text)).meta_graphs
               = builder.meta_graphs
    /\ pc = "L92" =>
          /\ Steps(1) = Steps(2)
          /\ ReadSavedModel(fs["/tmp/saved_model/half_plus_two"])
               = ReadSavedModel(fs["/tmp/saved_model/half_plus_two_pbtxt"])
          /\ fs["/tmp/saved_model/half_plus_two"].vars
               = fs["/tmp/saved_model/half_plus_two_pbtxt"].vars

\* the second export returned: both did the same steps
C10_Witness ==
    /\ pc = "L92"
    /\ Count(1, "save") = 1
    /\ Count(2, "save") = 1
    /\ Len(Steps(2)) = 11
====
